---- MODULE Spec2Model ----
(***************************************************************************)
(* Maritime traffic network (src/src/models/maritime_traffic_network.py):  *)
(* graph construction from waypoint passages, pruning, refinement from     *)
(* labelled paths and trajectory-to-path matching, as a state machine over *)
(* the snapshots the MaritimeTrafficNetwork object holds.                  *)
(***************************************************************************)
EXTENDS Integers, Sequences, FiniteSets, TLC

\* ------------------------------------------------------------------ bounds
NWaypoints == 3        \* number of waypoints (clusterID 0 .. NWaypoints-1)
NTraj == 2             \* trajectories fed to make_graph_from_waypoints
MaxRawLen == 3         \* waypoint hits of one trajectory before de-duplication
MaxMinPassages == 2    \* largest min_passages handed to prune_graph
MaxPaths == 2          \* labelled paths handed to refine_graph_from_paths
MaxPathLen == 3        \* waypoints on one labelled path
NumTables == 5         \* waypoint tables the runs start from
MaxHits == 2           \* waypoints find_WP_intersections reports for one trajectory
MaxBatch == 2          \* trajectories handed to evaluate_graph
MaxChain == 6          \* edges of the longest detour in the chain networks
MaxTimedPathLen == 4   \* waypoints of a labelled path in the speed runs

\* ------------------------------------------------------- program constants
MaxAltPathNodes == 5   \* len(nx.shortest_path(...)) <= 5 in prune_graph
RightAngle == 90       \* direction filter threshold of prune_graph
CloseDist == 100       \* dist_orig < 100 / dist_dest < 100 in the matcher
CloseGap == 3          \* (idx2-idx1) <= 3 in the matcher
Inf == 1000000         \* np.inf as a distance

Nodes == 0 .. (NWaypoints - 1)
NaN == -1              \* np.nan as a course value

\* ------------------------------------------------------------ sequences
Range(s) == {s[i] : i \in DOMAIN s}

SeqsUpTo(S, n) == UNION {[1 .. k -> S] : k \in 0 .. n}

\* the list as it is, repeated waypoints kept
KeepAll(s) == s

RECURSIVE OrderedDictFromKeys(_)
\* list(OrderedDict.fromkeys(passages)): first occurrence wins
OrderedDictFromKeys(s) ==
    IF s = << >> THEN << >>
    ELSE LET r == OrderedDictFromKeys(SubSeq(s, 1, Len(s) - 1))
             x == s[Len(s)]
         IN IF x \in Range(r) THEN r ELSE Append(r, x)

\* consecutive pairs (s[j], s[j+1]) of a node sequence, as a set of positions
PairIdx(s) == IF Len(s) < 2 THEN {} ELSE 1 .. (Len(s) - 1)

\* ------------------------------------------------------------ rationals
\* inverse_weight is a float in the source; it is kept as num/den
Rat(n, d) == [num |-> n, den |-> d]
OneOver(w) == Rat(1, w)
Zero == Rat(0, 1)
RatIsInverseOf(r, w) == r.num * w = r.den
RatAdd(a, b) == Rat(a.num * b.den + b.num * a.den, a.den * b.den)
RatLess(a, b) == a.num * b.den < b.num * a.den
RatEq(a, b) == a.num * b.den = b.num * a.den

\* --------------------------------------------------------------- geometry
\* waypoint positions on a unit grid (lon, lat); the model's stand-in for the
\* lon/lat columns of the waypoint table
Lon(n) == IF n % 4 \in {1, 2} THEN 1 ELSE 0
Lat(n) == IF n % 4 \in {2, 3} THEN 1 ELSE 0

\* compass bearing in degrees [0,360) from waypoint u to waypoint v
calculate_initial_compass_bearing(u, v) ==
    LET dx == Lon(v) - Lon(u)
        dy == Lat(v) - Lat(u)
    IN CASE dx = 0 /\ dy > 0 -> 0
         [] dx > 0 /\ dy > 0 -> 45
         [] dx > 0 /\ dy = 0 -> 90
         [] dx > 0 /\ dy < 0 -> 135
         [] dx = 0 /\ dy < 0 -> 180
         [] dx < 0 /\ dy < 0 -> 225
         [] dx < 0 /\ dy = 0 -> 270
         [] dx < 0 /\ dy > 0 -> 315
         [] OTHER -> 0

Abs(x) == IF x < 0 THEN -x ELSE x

\* np.abs(np.abs(wp - edge + 180) % 360 - 180); NaN propagates
AngleBetween(wp_direction, edge_direction) ==
    IF wp_direction = NaN THEN NaN
    ELSE Abs((Abs(wp_direction - edge_direction + 180) % 360) - 180)

\* (x > 90) on floats: False when x is NaN
GreaterThan(x, bound) == x # NaN /\ x > bound

\* ----------------------------------------------------------------- graphs
\* A networkx DiGraph with the attributes the operations read and write.
\* built = FALSE stands for the empty list the constructor stores.
NoGraph ==
    [built |-> FALSE, nodes |-> {}, weight |-> << >>, inverse_weight |-> << >>,
     direction |-> << >>, cog_before |-> << >>, cog_after |-> << >>,
     speed_distribution |-> << >>]

NoTable == [built |-> FALSE, rows |-> << >>]

Edges(g) == DOMAIN g.weight

\* RemoveEdges that also drops the nodes left without an incident edge
RemoveEdgesAndIsolates(g, es) ==
    LET keep == Edges(g) \ es
    IN [g EXCEPT !.nodes = {n \in g.nodes : \E e \in keep : n \in {e[1], e[2]}},
                 !.weight = [e \in keep |-> g.weight[e]],
                 !.inverse_weight = [e \in keep |-> g.inverse_weight[e]],
                 !.direction = [e \in keep |-> g.direction[e]],
                 !.speed_distribution = [e \in keep \cap DOMAIN g.speed_distribution |->
                                            g.speed_distribution[e]]]

RemoveEdges(g, es) ==
    LET keep == Edges(g) \ es
    IN [g EXCEPT !.weight = [e \in keep |-> g.weight[e]],
                 !.inverse_weight = [e \in keep |-> g.inverse_weight[e]],
                 !.direction = [e \in keep |-> g.direction[e]],
                 !.speed_distribution = [e \in keep \cap DOMAIN g.speed_distribution |->
                                            g.speed_distribution[e]]]

RemoveRows(t, es) ==
    [t EXCEPT !.rows = [e \in (DOMAIN t.rows) \ es |-> t.rows[e]]]

Succ(es, S) == {e[2] : e \in {d \in es : d[1] \in S}}

RECURSIVE HopsFrom(_, _, _, _, _)
\* breadth-first search: number of edges on a shortest path from the frontier
\* to v, or -1 when v is not reachable
HopsFrom(es, frontier, seen, v, k) ==
    IF v \in frontier THEN k
    ELSE LET next == Succ(es, frontier) \ seen
         IN IF next = {} THEN -1
            ELSE HopsFrom(es, next, seen \cup next, v, k + 1)

Hops(es, u, v) == HopsFrom(es, {u}, {u}, v, 0)

has_path(es, u, v) == Hops(es, u, v) >= 0

\* the number of edges on a shortest path, taken for its length
ShortestPathHops(es, u, v) == Hops(es, u, v)

\* len(nx.shortest_path(G, u, v)): number of nodes on a shortest path
ShortestPathLen(es, u, v) == Hops(es, u, v) + 1

Idle == [op |-> "idle"]

NoCall == [pc |-> "none"]

NoBatch == [todo |-> 0, records |-> 0, size |-> 0]

VARIABLES
    waypoints,                    \* self.waypoints
    G,                            \* self.G
    waypoint_connections,         \* self.waypoint_connections
    G_pruned,                     \* self.G_pruned
    waypoint_connections_pruned,  \* self.waypoint_connections_pruned
    G_refined,                    \* self.G_refined
    waypoint_connections_refined, \* self.waypoint_connections_refined
    ret,                          \* the last call and what it returned or raised
    m,                            \* the locals of the trajectory_to_path_sspd call in flight
    batch                         \* the loop of the evaluate_graph call in flight

vars == <<waypoints, G, waypoint_connections, G_pruned, waypoint_connections_pruned,
          G_refined, waypoint_connections_refined, ret, m, batch>>

snapshots == <<G, waypoint_connections, G_pruned, waypoint_connections_pruned,
               G_refined, waypoint_connections_refined>>

\* The waypoint tables the runs start from: the clustering step's output is
\* sampled by NumTables tables whose courses differ from waypoint to waypoint.
CourseOf(i) == IF i % 5 = 4 THEN NaN ELSE 90 * (i % 5)

WaypointTable(k) ==
    [n \in Nodes |-> [cog_before |-> CourseOf(2 * n + k), cog_after |-> CourseOf(n + 2 * k)]]

WaypointTables == {WaypointTable(k) : k \in 0 .. (NumTables - 1)}

InitWith(tables) ==
    /\ waypoints \in tables
    /\ G = NoGraph
    /\ waypoint_connections = NoTable
    /\ G_pruned = NoGraph
    /\ waypoint_connections_pruned = NoTable
    /\ G_refined = NoGraph
    /\ waypoint_connections_refined = NoTable
    /\ ret = Idle
    /\ m = NoCall
    /\ batch = NoBatch

\* ------------------------------------------- make_graph_from_waypoints
\* AddPassage with the count of a new edge started at 0
AddPassageFromZero(coord_dict, row, col) ==
    IF row = col THEN coord_dict
    ELSE IF <<row, col>> \in DOMAIN coord_dict
         THEN [coord_dict EXCEPT ![<<row, col>>] = @ + 1]
         ELSE [e \in (DOMAIN coord_dict) \cup {<<row, col>>} |->
                 IF e = <<row, col>> THEN 0 ELSE coord_dict[e]]

\* coord_dict[(row, col)] += 1, or = 1 when the key is new; no self loops
AddPassage(coord_dict, row, col) ==
    IF row = col THEN coord_dict
    ELSE IF <<row, col>> \in DOMAIN coord_dict
         THEN [coord_dict EXCEPT ![<<row, col>>] = @ + 1]
         ELSE [e \in (DOMAIN coord_dict) \cup {<<row, col>>} |->
                 IF e = <<row, col>> THEN 1 ELSE coord_dict[e]]

RECURSIVE AddPassages(_, _, _)
\* for i in range(0, len(passages)-1): one trajectory's consecutive pairs
AddPassages(coord_dict, passages, i) ==
    IF i > Len(passages) - 1 THEN coord_dict
    ELSE AddPassages(AddPassage(coord_dict, passages[i], passages[i + 1]), passages, i + 1)

RECURSIVE CoordDict(_, _)
\* coord_dict after the loop over the trajectories 1 .. t
CoordDict(passages, t) ==
    IF t = 0 THEN << >>
    ELSE AddPassages(CoordDict(passages, t - 1), passages[t], 1)

\* the passage lists one trajectory can produce: its waypoint hits, de-duplicated
PassageLists == {OrderedDictFromKeys(raw) : raw \in SeqsUpTo(Nodes, MaxRawLen)}

\* the passage lists of the trajectories of self.significant_points_trajectory
AllDatasets == [1 .. NTraj -> PassageLists]

\* two trajectories with the given waypoint hits, the others passing no waypoint
Dataset(a, b) ==
    [t \in 1 .. NTraj |-> OrderedDictFromKeys(IF t = 1 THEN a ELSE IF t = 2 THEN b ELSE << >>)]

SampleDatasets ==
    {Dataset(<<0, 1, 2>>, <<0, 2, 0>>), Dataset(<<0, 1, 2>>, <<0, 1, 1>>),
     Dataset(<<1, 0>>, <<0, 1, 0>>), Dataset(<<2, 2>>, << >>)}

GraphFromCoordDict(cd, wps) ==
    [built |-> TRUE,
     nodes |-> DOMAIN wps,
     weight |-> cd,
     inverse_weight |-> [e \in DOMAIN cd |-> OneOver(cd[e])],
     direction |-> [e \in DOMAIN cd |-> calculate_initial_compass_bearing(e[1], e[2])],
     cog_before |-> [n \in DOMAIN wps |-> wps[n].cog_before],
     cog_after |-> [n \in DOMAIN wps |-> wps[n].cog_after],
     speed_distribution |-> << >>]

TableFromCoordDict(cd) ==
    [built |-> TRUE,
     rows |-> [e \in DOMAIN cd |->
                 [passages |-> cd[e],
                  direction |-> calculate_initial_compass_bearing(e[1], e[2])]]]

\* passages = list(OrderedDict.fromkeys(passages)) of every trajectory
Passages(trajectories) ==
    [t \in DOMAIN trajectories |-> OrderedDictFromKeys(trajectories[t])]

\* every trajectory with the waypoint hits of its segments, before line 675
RawDatasets == [1 .. NTraj -> SeqsUpTo(Nodes, MaxRawLen)]

make_graph_from_waypoints(datasets) ==
    /\ ret = Idle /\ batch = NoBatch
    /\ ~G.built
    /\ \E trajectories \in datasets :
         LET cd == CoordDict(Passages(trajectories), Len(trajectories))
         IN IF DOMAIN cd = {}
            THEN \* row_indices, col_indices = zip(*coord_dict.keys()) raises
                 /\ ret' = [op |-> "make_graph", raised |-> TRUE,
                            trajectories |-> trajectories]
                 /\ UNCHANGED <<G, waypoint_connections>>
            ELSE /\ G' = GraphFromCoordDict(cd, waypoints)
                 /\ waypoint_connections' = TableFromCoordDict(cd)
                 /\ ret' = [op |-> "make_graph", raised |-> FALSE,
                            trajectories |-> trajectories]
    /\ UNCHANGED <<waypoints, G_pruned, waypoint_connections_pruned,
                   G_refined, waypoint_connections_refined, m, batch>>

\* --------------------------------------------------------- prune_graph
RECURSIVE Perms(_)
Perms(S) ==
    IF S = {} THEN {<< >>}
    ELSE UNION {{<<x>> \o p : p \in Perms(S \ {x})} : x \in S}

RECURSIVE EdgeOrdersFrom(_, _)
\* the orders in which G.edges() can list the edges: node by node in node
\* order, each node's out-edges in the order they were inserted
EdgeOrdersFrom(es, u) ==
    IF \A e \in es : e[1] < u THEN {<< >>}
    ELSE {p \o q : p \in Perms({e \in es : e[1] = u}), q \in EdgeOrdersFrom(es, u + 1)}

EdgeOrders(es) == EdgeOrdersFrom(es, 0)

\* first loop of prune_graph: the edges that violate the traffic direction of
\* both waypoints they connect
DirectionViolates(g, e) ==
    LET angle1 == AngleBetween(g.cog_after[e[1]], g.direction[e])
        angle2 == AngleBetween(g.cog_before[e[2]], g.direction[e])
    IN GreaterThan(angle1, RightAngle) /\ GreaterThan(angle2, RightAngle)

DirectionFilter(g) == {e \in Edges(g) : DirectionViolates(g, e)}

\* RedundancyStep with weight <= min_passages as the pruning criterion
RedundancyStepInclusive(g, min_passages, acc, e) ==
    IF g.weight[e] <= min_passages
    THEN LET temp == acc.temp \ {e}
         IN [temp |-> temp,
             marked |-> IF /\ has_path(temp, e[1], e[2])
                           /\ ShortestPathLen(temp, e[1], e[2]) <= MaxAltPathNodes
                        THEN acc.marked \cup {e} ELSE acc.marked]
    ELSE acc

\* RedundancyStep with the tentative removal undone when the edge is not
\* marked
RedundancyStepRestoring(g, min_passages, acc, e) ==
    IF g.weight[e] < min_passages
    THEN LET temp == acc.temp \ {e}
             redundant == /\ has_path(temp, e[1], e[2])
                          /\ ShortestPathLen(temp, e[1], e[2]) <= MaxAltPathNodes
         IN [temp |-> IF redundant THEN temp ELSE acc.temp,
             marked |-> IF redundant THEN acc.marked \cup {e} ELSE acc.marked]
    ELSE acc

\* one iteration of the second loop: acc = [temp |-> edges of G_temp,
\* marked |-> edges_to_remove]
RedundancyStep(g, min_passages, acc, e) ==
    IF g.weight[e] < min_passages
    THEN LET temp == acc.temp \ {e}
         IN [temp |-> temp,
             marked |-> IF /\ has_path(temp, e[1], e[2])
                           /\ ShortestPathLen(temp, e[1], e[2]) <= MaxAltPathNodes
                        THEN acc.marked \cup {e} ELSE acc.marked]
    ELSE acc

RECURSIVE RedundancyFilter(_, _, _, _, _)
RedundancyFilter(g, min_passages, order, i, acc) ==
    IF i > Len(order) THEN acc
    ELSE RedundancyFilter(g, min_passages, order, i + 1,
                          RedundancyStep(g, min_passages, acc, order[i]))

\* edges_to_remove after both loops
EdgesToRemove(g, min_passages, order) ==
    RedundancyFilter(g, min_passages, order, 1,
                     [temp |-> Edges(g), marked |-> DirectionFilter(g)]).marked

GraphNames == {"original", "refined", "other"}

prune_graph ==
    /\ ret = Idle /\ batch = NoBatch
    /\ \E min_passages \in 1 .. MaxMinPassages, graph \in GraphNames :
         LET src == IF graph = "original" THEN G ELSE G_refined
             tbl == IF graph = "original" THEN waypoint_connections
                    ELSE waypoint_connections_refined
         IN IF graph = "other"
            THEN \* 'Specify a valid graph to prune': returns without a result
                 /\ ret' = [op |-> "prune", raised |-> FALSE, graph |-> graph,
                            min_passages |-> min_passages]
                 /\ UNCHANGED <<G_pruned, waypoint_connections_pruned>>
            ELSE IF ~src.built
            THEN \* the snapshot is still the empty list: [].edges() raises
                 /\ ret' = [op |-> "prune", raised |-> TRUE, graph |-> graph,
                            min_passages |-> min_passages]
                 /\ UNCHANGED <<G_pruned, waypoint_connections_pruned>>
            ELSE \E removed \in {EdgesToRemove(src, min_passages, o) : o \in EdgeOrders(Edges(src))} :
                 /\ G_pruned' = RemoveEdges(src, removed)
                 /\ waypoint_connections_pruned' = RemoveRows(tbl, removed)
                 /\ ret' = [op |-> "prune", raised |-> FALSE, graph |-> graph,
                            min_passages |-> min_passages]
    /\ UNCHANGED <<waypoints, G, waypoint_connections, G_refined, waypoint_connections_refined,
                   m, batch>>

\* ------------------------------------------------- refine_graph_from_paths
\* AddPath with the weight of a sailed edge set to 1 instead of incremented
RECURSIVE AddPathFlag(_, _, _)
AddPathFlag(acc, path, j) ==
    IF acc.raised \/ j > Len(path) - 1 THEN acc
    ELSE LET e == <<path[j], path[j + 1]>>
         IN IF e \notin DOMAIN acc.weight
            THEN [acc EXCEPT !.raised = TRUE]
            ELSE AddPathFlag([acc EXCEPT !.weight[e] = 1], path, j + 1)

\* G_refined[u][v]['weight'] += 1 for the pairs j .. len(path)-1 of one path;
\* acc = [raised |-> a KeyError was raised, weight |-> the weights so far]
RECURSIVE AddPath(_, _, _)
AddPath(acc, path, j) ==
    IF acc.raised \/ j > Len(path) - 1 THEN acc
    ELSE LET e == <<path[j], path[j + 1]>>
         IN IF e \notin DOMAIN acc.weight
            THEN [acc EXCEPT !.raised = TRUE]
            ELSE AddPath([acc EXCEPT !.weight[e] = @ + 1], path, j + 1)

RECURSIVE AddPaths(_, _, _)
\* for i in range(0, len(paths)): the paths i .. len(paths)
AddPaths(acc, paths, i) ==
    IF acc.raised \/ i > Len(paths) THEN acc
    ELSE AddPaths(AddPath(acc, paths[i], 1), paths, i + 1)

\* the weights after 'set all edge weights that count passages to 0' and the
\* loop over the paths
RefinedWeights(g, paths) ==
    AddPaths([raised |-> FALSE, weight |-> [e \in Edges(g) |-> 0]], paths, 1)

\* G_refined as assigned at the end: inverse_weight was set to 0 together with
\* weight and is not written again; the edges no path sailed are removed
RefinedGraph(g, weight) ==
    RemoveEdges([g EXCEPT !.weight = weight,
                          !.inverse_weight = [e \in Edges(g) |-> Zero]],
                {e \in Edges(g) : weight[e] = 0})

\* connections_refined: passages set to 0, then to the weight of every edge
\* kept, and the rows of the removed edges dropped
RefinedTable(t, weight) ==
    RemoveRows([t EXCEPT !.rows = [e \in DOMAIN t.rows |->
                                     [t.rows[e] EXCEPT !.passages = weight[e]]]],
               {e \in DOMAIN t.rows : weight[e] = 0})

\* x = self.G without the copy: both names are one object, and what is written
\* to x is written to self.G
alias(original, written) == written

\* x = self.G.copy() followed by writes to x: the object copied is afterwards
\* what it was, whatever was written to the copy
copy(original, written) == original

\* the labelled paths a caller hands over: walks of the graph (what the matcher
\* emits) and, for the error path, any pair of waypoints
IsWalk(es, path) == \A j \in PairIdx(path) : <<path[j], path[j + 1]>> \in es

PathsUpTo(g, max_len) ==
    {p \in SeqsUpTo(Nodes, max_len) : Len(p) <= 2 \/ IsWalk(Edges(g), p)}

PathInputs(g) == PathsUpTo(g, MaxPathLen)

\* what clip_trajectory_between_WPs gives for one passage: the length of the
\* trajectory segment between the two waypoints and t2 - t1 in seconds
Lengths == {6}

Clips(elapsed) == [length : Lengths, elapsed : elapsed]

\* one clip for every passage (i, j) of the paths
ClipsOf(paths, elapsed) ==
    LET choices == [{ij \in (DOMAIN paths) \X (1 .. MaxTimedPathLen) : ij[2] \in PairIdx(paths[ij[1]])}
                        -> Clips(elapsed)]
    IN {[i \in DOMAIN paths |-> [j \in PairIdx(paths[i]) |-> c[<<i, j>>]]] : c \in choices}

\* t2 - t1 of a trajectory whose timestamps grow between the two waypoints
ElapsedPositive == {2}

\* t2 - t1 of any trajectory: also timestamps that stand still or run back
ElapsedValues == {-1, 0, 2}

ZeroDivisionError == [num |-> 0, den |-> 0]

\* length / time_diff
Divide(n, d) == IF d = 0 THEN ZeroDivisionError ELSE Rat(n, d)

\* the speed computed without looking at the sign of t2 - t1
SpeedUnguarded(clip) == Divide(clip.length, clip.elapsed)

\* speed = length / time_diff if t2 > t1 else 0
Speed(clip) ==
    IF clip.elapsed > 0 THEN Divide(clip.length, clip.elapsed) ELSE Zero

\* the value of the local 'speed' in every iteration (i, j)
PassageSpeeds(paths, clips) ==
    [i \in DOMAIN paths |-> [j \in PairIdx(paths[i]) |-> Speed(clips[i][j])]]

\* speeds[u, v, i] after the loop: one cell per edge and path, the last
\* assignment stays; a cell never assigned reads 0.0
SpeedCell(paths, clips, e, i) ==
    LET js == {j \in PairIdx(paths[i]) : <<paths[i][j], paths[i][j + 1]>> = e}
    IN IF js = {} THEN Zero
       ELSE Speed(clips[i][CHOOSE j \in js : \A k \in js : k <= j])

IsPositive(x) == x.num > 0

\* speeds_u_v = speeds[u, v, :].todense(); speeds_u_v[speeds_u_v > 0]
SpeedDistribution(paths, clips, e) ==
    SelectSeq([i \in DOMAIN paths |-> SpeedCell(paths, clips, e, i)], IsPositive)

\* the refined graph with the speed feature of every edge kept
WithSpeeds(g, paths, clips) ==
    [g EXCEPT !.speed_distribution =
                  [e \in Edges(g) |-> SpeedDistribution(paths, clips, e)]]

\* the clips of the passages the loop reaches
UsedClips(paths, clips) ==
    [i \in DOMAIN paths |-> [j \in PairIdx(paths[i]) |-> clips[i][j]]]

DividesByZero(paths, clips) ==
    \E i \in DOMAIN paths : \E j \in PairIdx(paths[i]) :
        Speed(clips[i][j]) = ZeroDivisionError

refine_graph_from_paths(max_len, elapsed) ==
    /\ ret = Idle /\ batch = NoBatch
    /\ G.built
    /\ \E paths \in SeqsUpTo(PathsUpTo(G, max_len), MaxPaths) :
       \E clips \in ClipsOf(paths, elapsed) :
         LET acc == RefinedWeights(G, paths)
         IN
         /\ IF acc.raised
            THEN \* G_refined[u][v] of a pair that is no edge raises KeyError
                 /\ ret' = [op |-> "refine", raised |-> TRUE, paths |-> paths,
                            error |-> "KeyError", clips |-> << >>, speed |-> << >>]
                 /\ UNCHANGED <<G_refined, waypoint_connections_refined>>
            ELSE IF DividesByZero(paths, clips)
            THEN /\ ret' = [op |-> "refine", raised |-> TRUE, paths |-> paths,
                            error |-> "ZeroDivisionError",
                            clips |-> UsedClips(paths, clips), speed |-> << >>]
                 /\ UNCHANGED <<G_refined, waypoint_connections_refined>>
            ELSE /\ G_refined' = WithSpeeds(RefinedGraph(G, acc.weight), paths, clips)
                 /\ waypoint_connections_refined' = RefinedTable(waypoint_connections, acc.weight)
                 /\ ret' = [op |-> "refine", raised |-> FALSE, paths |-> paths,
                            error |-> "none", clips |-> UsedClips(paths, clips),
                            speed |-> PassageSpeeds(paths, clips)]
         /\ G' = copy(G, RefinedGraph(G, acc.weight))
         /\ waypoint_connections' = copy(waypoint_connections,
                                         RefinedTable(waypoint_connections, acc.weight))
    /\ UNCHANGED <<waypoints, G_pruned, waypoint_connections_pruned, m, batch>>

\* ------------------------------------------------ trajectory_to_path_sspd
\* What the trajectory contributes is what the geometry functions make of it.

\* find_orig_WP and find_dest_WP: the nearest waypoint to the first and to the
\* last point with its distance; when either raises, the defaults of the except
Distances == {50, 150}

\* find_orig_WP / find_dest_WP raised and the defaults carry a distance that
\* passes the closeness test
LocateFailedClose ==
    [located |-> FALSE, orig_WP |-> 0, dest_WP |-> 0, dist_orig |-> 0, dist_dest |-> 0]

LocateFailed ==
    [located |-> FALSE, orig_WP |-> 0, dest_WP |-> 0, dist_orig |-> Inf, dist_dest |-> Inf]

LocateOutcomes ==
    {LocateFailed} \cup
    {[located |-> TRUE, orig_WP |-> o, dest_WP |-> d, dist_orig |-> x, dist_dest |-> y] :
        o \in Nodes, d \in Nodes, x \in Distances, y \in Distances}

\* find_WP_intersections: the waypoints passed, in order and de-duplicated
HitLists == {h \in SeqsUpTo(Nodes, MaxHits) : \A i, j \in DOMAIN h : h[i] = h[j] => i = j}

\* the nodes of the channel graph: the waypoints within the buffer of the
\* trajectory, among them the ones passed and an endpoint waypoint that is close
Channels(loc, hits) ==
    {ch \in SUBSET Nodes :
        /\ Range(hits) \subseteq ch
        /\ loc.dist_orig < CloseDist => loc.orig_WP \in ch
        /\ loc.dist_dest < CloseDist => loc.dest_WP \in ch}

\* G.subgraph(channel): the edges of G with both ends in the channel
ChannelEdges(es, ch) == {e \in es : e[1] \in ch /\ e[2] \in ch}

\* Reconcile with empty passages seeded from the endpoints also when the
\* located origin and destination are the same waypoint
ReconcileSeedAlways(es, loc, hits) ==
    IF Len(hits) = 0
    THEN [passages |-> (IF loc.dist_orig < CloseDist THEN <<loc.orig_WP>> ELSE << >>)
                       \o (IF loc.dist_dest < CloseDist THEN <<loc.dest_WP>> ELSE << >>),
          orig_WP |-> loc.orig_WP, dest_WP |-> loc.dest_WP]
    ELSE IF Len(hits) = 0
    THEN [passages |-> << >>, orig_WP |-> loc.orig_WP, dest_WP |-> loc.dest_WP]
    ELSE LET insert == /\ loc.orig_WP \notin Range(hits)
                       /\ loc.dist_orig < CloseDist
                       /\ has_path(es, loc.orig_WP, hits[1])
             p1 == IF insert THEN <<loc.orig_WP>> \o hits ELSE hits
             append == /\ loc.dest_WP \notin Range(p1)
                       /\ loc.dist_dest < CloseDist
                       /\ has_path(es, p1[Len(p1)], loc.dest_WP)
         IN [passages |-> IF append THEN Append(p1, loc.dest_WP) ELSE p1,
             orig_WP |-> IF insert THEN loc.orig_WP ELSE p1[1],
             dest_WP |-> IF append THEN loc.dest_WP ELSE p1[Len(p1)]]

\* Reconcile with the located origin inserted when it can be reached from the
\* first passage
ReconcileOriginReached(es, loc, hits) ==
    IF Len(hits) = 0 /\ loc.orig_WP # loc.dest_WP
    THEN [passages |-> (IF loc.dist_orig < CloseDist THEN <<loc.orig_WP>> ELSE << >>)
                       \o (IF loc.dist_dest < CloseDist THEN <<loc.dest_WP>> ELSE << >>),
          orig_WP |-> loc.orig_WP, dest_WP |-> loc.dest_WP]
    ELSE IF Len(hits) = 0
    THEN [passages |-> << >>, orig_WP |-> loc.orig_WP, dest_WP |-> loc.dest_WP]
    ELSE LET insert == /\ loc.orig_WP \notin Range(hits)
                       /\ loc.dist_orig < CloseDist
                       /\ has_path(es, hits[1], loc.orig_WP)
             p1 == IF insert THEN <<loc.orig_WP>> \o hits ELSE hits
             append == /\ loc.dest_WP \notin Range(p1)
                       /\ loc.dist_dest < CloseDist
                       /\ has_path(es, p1[Len(p1)], loc.dest_WP)
         IN [passages |-> IF append THEN Append(p1, loc.dest_WP) ELSE p1,
             orig_WP |-> IF insert THEN loc.orig_WP ELSE p1[1],
             dest_WP |-> IF append THEN loc.dest_WP ELSE p1[Len(p1)]]

\* Reconcile with empty passages seeded from the endpoints destination first
ReconcileDestinationFirst(es, loc, hits) ==
    IF Len(hits) = 0 /\ loc.orig_WP # loc.dest_WP
    THEN [passages |-> (IF loc.dist_dest < CloseDist THEN <<loc.dest_WP>> ELSE << >>)
                       \o (IF loc.dist_orig < CloseDist THEN <<loc.orig_WP>> ELSE << >>),
          orig_WP |-> loc.orig_WP, dest_WP |-> loc.dest_WP]
    ELSE IF Len(hits) = 0
    THEN [passages |-> << >>, orig_WP |-> loc.orig_WP, dest_WP |-> loc.dest_WP]
    ELSE LET insert == /\ loc.orig_WP \notin Range(hits)
                       /\ loc.dist_orig < CloseDist
                       /\ has_path(es, loc.orig_WP, hits[1])
             p1 == IF insert THEN <<loc.orig_WP>> \o hits ELSE hits
             append == /\ loc.dest_WP \notin Range(p1)
                       /\ loc.dist_dest < CloseDist
                       /\ has_path(es, p1[Len(p1)], loc.dest_WP)
         IN [passages |-> IF append THEN Append(p1, loc.dest_WP) ELSE p1,
             orig_WP |-> IF insert THEN loc.orig_WP ELSE p1[1],
             dest_WP |-> IF append THEN loc.dest_WP ELSE p1[Len(p1)]]

\* the three cases after find_WP_intersections: the passages list with the
\* endpoints reconciled, and orig_WP / dest_WP as they are afterwards
Reconcile(es, loc, hits) ==
    IF Len(hits) = 0 /\ loc.orig_WP # loc.dest_WP
    THEN [passages |-> (IF loc.dist_orig < CloseDist THEN <<loc.orig_WP>> ELSE << >>)
                       \o (IF loc.dist_dest < CloseDist THEN <<loc.dest_WP>> ELSE << >>),
          orig_WP |-> loc.orig_WP, dest_WP |-> loc.dest_WP]
    ELSE IF Len(hits) = 0
    THEN [passages |-> << >>, orig_WP |-> loc.orig_WP, dest_WP |-> loc.dest_WP]
    ELSE LET insert == /\ loc.orig_WP \notin Range(hits)
                       /\ loc.dist_orig < CloseDist
                       /\ has_path(es, loc.orig_WP, hits[1])
             p1 == IF insert THEN <<loc.orig_WP>> \o hits ELSE hits
             append == /\ loc.dest_WP \notin Range(p1)
                       /\ loc.dist_dest < CloseDist
                       /\ has_path(es, p1[Len(p1)], loc.dest_WP)
         IN [passages |-> IF append THEN Append(p1, loc.dest_WP) ELSE p1,
             orig_WP |-> IF insert THEN loc.orig_WP ELSE p1[1],
             dest_WP |-> IF append THEN loc.dest_WP ELSE p1[Len(p1)]]

\* SSPD and fraction_covered (in percent) of evaluation_results when a path was
\* evaluated: what sspd and the trajectory lengths give
Evaluations ==
    {[SSPD |-> 0, fraction_covered |-> 100], [SSPD |-> 40, fraction_covered |-> 50]}

\* an evaluation that reports the whole trajectory as covered
FullCoverage == [SSPD |-> NaN, fraction_covered |-> 100]

\* 'SSPD': np.nan and 'fraction_covered': 0 of the branches without a path
NoEvaluation == [SSPD |-> NaN, fraction_covered |-> 0]

\* what a call returns: the message of path_df and evaluation_results, the
\* path (empty for no_path and no_intersects), orig and dest, and what the call
\* saw on its way
\* no record of what the guarded block did
NoTrace == [es |-> {}, stitched |-> << >>, path |-> << >>, pairs |-> << >>]

Result(frame, message, path, evaluation) ==
    [op |-> "match", raised |-> FALSE, message |-> message, path |-> path,
     rows |-> IF Len(path) < 2 THEN 0 ELSE Len(path) - 1,
     SSPD |-> evaluation.SSPD, fraction_covered |-> evaluation.fraction_covered,
     passages |-> frame.passages, orig_WP |-> frame.orig_WP, dest_WP |-> frame.dest_WP,
     located |-> frame.located, same_located |-> frame.same_located, hits |-> frame.hits,
     cause |-> frame.cause, algorithm |-> frame.algorithm, trace |-> frame.trace]

\* an exception leaves the call
Escaped(frame) ==
    [op |-> "match", raised |-> TRUE, message |-> "exception", path |-> << >>,
     rows |-> 0, SSPD |-> NaN, fraction_covered |-> 0,
     passages |-> frame.passages, orig_WP |-> frame.orig_WP, dest_WP |-> frame.dest_WP,
     located |-> frame.located, same_located |-> frame.same_located, hits |-> frame.hits,
     cause |-> frame.cause, algorithm |-> frame.algorithm, trace |-> frame.trace]

\* find_WP_intersections(points, trajectory, waypoints, G, 1000): it raises, or
\* returns the passages and the channel graph
find_WP_intersections(loc, hitlists) ==
    {[raised |-> TRUE, passages |-> << >>, channel |-> {}]} \cup
    UNION {{[raised |-> FALSE, passages |-> h, channel |-> ch] : ch \in Channels(loc, h)} :
             h \in hitlists}

\* the algorithm parameter of the call
Algorithms == {"standard", "refined"}

\* lines 776-832: copies, endpoint location, intersections, reconciliation
match_locate(locs, hitlists) ==
    /\ ret = Idle /\ m = NoCall /\ batch.todo > 0
    /\ G_pruned.built
    /\ \E loc \in locs, algorithm \in Algorithms :
         \E found \in find_WP_intersections(loc, hitlists) :
            LET r == Reconcile(Edges(G_pruned), loc, found.passages)
                frame == [pc |-> "reconciled", loc |-> loc, found |-> found.passages,
                          channel |-> found.channel,
                          passages |-> r.passages, orig_WP |-> r.orig_WP, dest_WP |-> r.dest_WP,
                          located |-> loc.located,
                          same_located |-> loc.located /\ loc.orig_WP = loc.dest_WP,
                          hits |-> Len(found.passages), cause |-> "none",
                          algorithm |-> algorithm, trace |-> NoTrace]
            IN IF found.raised
               THEN \* no handler around line 802: the exception leaves the call
                    /\ m' = NoCall
                    /\ ret' = Escaped([frame EXCEPT !.passages = << >>,
                                                    !.cause = "intersections",
                                                    !.orig_WP = loc.orig_WP,
                                                    !.dest_WP = loc.dest_WP])
               ELSE m' = frame /\ ret' = ret
    /\ UNCHANGED <<waypoints, snapshots, batch>>

\* line 834 and lines 1066-1079: too few passages end the call
match_branch ==
    /\ m.pc = "reconciled"
    /\ IF Len(m.passages) >= 2
       THEN /\ m' = [pc |-> "try", channel |-> m.channel, passages |-> m.passages,
                     orig_WP |-> m.orig_WP, dest_WP |-> m.dest_WP, located |-> m.located,
                     same_located |-> m.same_located, hits |-> m.hits, cause |-> "none",
                     algorithm |-> m.algorithm, trace |-> NoTrace]
            /\ ret' = ret
       ELSE /\ m' = NoCall
            /\ ret' = Result(m, "no_intersects", << >>, NoEvaluation)
    /\ UNCHANGED <<waypoints, snapshots, batch>>

\* np.argmin(WP.distance(points.geometry)) of every waypoint: the index of the
\* trajectory point closest to it
IdxValues == {0, 2, 6}

Indices == [Nodes -> IdxValues]

LMaxValues == {2, 5}

KMaxValues == {0, 1, 500}

RECURSIVE SimplePathsFrom(_, _, _, _)
\* the simple paths that extend path to v with at most cutoff more edges
SimplePathsFrom(es, path, v, cutoff) ==
    LET last == path[Len(path)]
    IN IF last = v THEN {path}
       ELSE IF cutoff = 0 THEN {}
       ELSE UNION {SimplePathsFrom(es, Append(path, w), v, cutoff - 1) :
                     w \in Succ(es, {last}) \ Range(path)}

\* nx.all_simple_paths(G_channel, u, v, cutoff): nothing when cutoff < 1
all_simple_paths(es, u, v, cutoff) ==
    IF cutoff < 1 THEN {} ELSE SimplePathsFrom(es, <<u>>, v, cutoff)

\* nx.all_shortest_paths(G_channel, u, v), for v reachable from u
all_shortest_paths(es, u, v) == SimplePathsFrom(es, <<u>>, v, Hops(es, u, v))

RECURSIVE FinalCutoffByTwo(_, _, _, _, _)
\* FinalCutoff with the cutoff lowered by 2 in every iteration
FinalCutoffByTwo(es, u, v, k_max, cutoff) ==
    IF Cardinality(all_simple_paths(es, u, v, cutoff)) > k_max
    THEN FinalCutoffByTwo(es, u, v, k_max, cutoff - 2)
    ELSE cutoff

RECURSIVE FinalCutoff(_, _, _, _, _)
\* while len(list(edge_sequences)) > k_max: cutoff -= 1
FinalCutoff(es, u, v, k_max, cutoff) ==
    IF Cardinality(all_simple_paths(es, u, v, cutoff)) > k_max
    THEN FinalCutoff(es, u, v, k_max, cutoff - 1)
    ELSE cutoff

\* Candidates with the length of the shortest path counted in edges
CandidatesByHops(es, ch, u, v, idx1, idx2, l_max, k_max) ==
    IF u \notin ch \/ v \notin ch \/ ~has_path(es, u, v)
    THEN [raised |-> TRUE, mode |-> "raised", cutoff |-> l_max, sequences |-> {}]
    ELSE IF (idx2 - idx1) <= CloseGap \/ Hops(es, u, v) > l_max
    THEN [raised |-> FALSE, mode |-> "shortest", cutoff |-> l_max,
          sequences |-> all_shortest_paths(es, u, v)]
    ELSE [raised |-> FALSE, mode |-> "simple",
          cutoff |-> FinalCutoff(es, u, v, k_max, l_max),
          sequences |-> all_simple_paths(es, u, v, FinalCutoff(es, u, v, k_max, l_max))]

\* edge_sequences of one waypoint pair, or the exception networkx raises when
\* a node is not in the channel graph or no path joins the pair
Candidates(es, ch, u, v, idx1, idx2, l_max, k_max) ==
    IF u \notin ch \/ v \notin ch \/ ~has_path(es, u, v)
    THEN [raised |-> TRUE, mode |-> "raised", cutoff |-> l_max, sequences |-> {}]
    ELSE IF (idx2 - idx1) <= CloseGap
    THEN [raised |-> FALSE, mode |-> "shortest", cutoff |-> l_max,
          sequences |-> all_shortest_paths(es, u, v)]
    ELSE IF ShortestPathLen(es, u, v) > l_max
    THEN [raised |-> FALSE, mode |-> "shortest", cutoff |-> l_max,
          sequences |-> all_shortest_paths(es, u, v)]
    ELSE [raised |-> FALSE, mode |-> "simple",
          cutoff |-> FinalCutoff(es, u, v, k_max, l_max),
          sequences |-> all_simple_paths(es, u, v, FinalCutoff(es, u, v, k_max, l_max))]

\* the SSPD of a candidate, scaled by its detour
Scores == {1, 2}

\* best_sequence after the loop over a non-empty edge_sequences: a candidate
\* no other candidate scores below
Best(sequences, score) ==
    {b \in sequences : \A x \in sequences : score[b] <= score[x]}

\* what one iteration of the loop over the pairs did
Pair(c, i, cand, score, appended) ==
    [u |-> c.passages[i], v |-> c.passages[i + 1],
     idx1 |-> c.idx[c.passages[i]], idx2 |-> c.idx[c.passages[i + 1]],
     l_max |-> c.l_max, k_max |-> c.k_max,
     hops |-> IF cand.mode = "skipped" THEN 0 ELSE Hops(c.es, c.passages[i], c.passages[i + 1]),
     mode |-> cand.mode, cutoff |-> cand.cutoff, sequences |-> cand.sequences,
     score |-> score, appended |-> appended]

Skipped == [raised |-> FALSE, mode |-> "skipped", cutoff |-> 0, sequences |-> {}]

\* best_sequence before the first pair assigned it
Unbound == << >>

RECURSIVE PairLoop(_, _, _, _, _)
\* the loop over the waypoint pairs i .. len(passages)-1; c holds what the loop
\* reads, path is the flattened path so far, pairs what the iterations did.
\* The candidates can have any scores.  The outcomes: the path, or an exception.
PairLoop(c, i, path, best_sequence, pairs) ==
    IF i > Len(c.passages) - 1 THEN {[raised |-> FALSE, path |-> path, pairs |-> pairs]}
    ELSE LET idx1 == c.idx[c.passages[i]]
             idx2 == c.idx[c.passages[i + 1]]
             cand == Candidates(c.es, c.channel, c.passages[i], c.passages[i + 1],
                                idx1, idx2, c.l_max, c.k_max)
         IN IF idx2 < idx1
            THEN PairLoop(c, i + 1, path, best_sequence,
                          Append(pairs, Pair(c, i, Skipped, << >>, << >>)))
            ELSE IF cand.raised THEN {[raised |-> TRUE, path |-> path, pairs |-> pairs]}
            ELSE IF cand.sequences = {}
            THEN \* no candidate: best_sequence is what the pair before left
                 IF best_sequence = Unbound
                 THEN {[raised |-> TRUE, path |-> path, pairs |-> pairs]}
                 ELSE PairLoop(c, i + 1, path \o Tail(best_sequence), best_sequence,
                               Append(pairs, Pair(c, i, cand, << >>, best_sequence)))
            ELSE UNION {UNION {PairLoop(c, i + 1, path \o Tail(b), b,
                                        Append(pairs, Pair(c, i, cand, score, b))) :
                                 b \in Best(cand.sequences, score)} :
                          score \in [cand.sequences -> Scores]}

RECURSIVE RefineLoopAnyHop(_, _, _, _, _)
\* RefineLoop that skips the middle waypoint of a triple whether or not the
\* channel graph has the direct edge
RefineLoopAnyHop(es, path, k, refined_path, skipped) ==
    IF k > Len(path) - 2
    THEN {IF refined_path[Len(refined_path)] # path[Len(path)]
          THEN Append(refined_path, path[Len(path)]) ELSE refined_path}
    ELSE IF skipped THEN RefineLoopAnyHop(es, path, k + 1, refined_path, FALSE)
    ELSE RefineLoopAnyHop(es, path, k + 1, Append(refined_path, path[k + 1]), FALSE)
         \cup RefineLoopAnyHop(es, path, k + 1, Append(refined_path, path[k + 2]), TRUE)

RECURSIVE RefineLoop(_, _, _, _, _)
\* algorithm == 'refined': for k in range(0, len(path)-2) over the triples
\* (path[k], path[k+1], path[k+2]); where the channel graph has the edge
\* path[k] -> path[k+2] the comparison of the two routes can go either way
RefineLoop(es, path, k, refined_path, skipped) ==
    IF k > Len(path) - 2
    THEN {IF refined_path[Len(refined_path)] # path[Len(path)]
          THEN Append(refined_path, path[Len(path)]) ELSE refined_path}
    ELSE IF skipped THEN RefineLoop(es, path, k + 1, refined_path, FALSE)
    ELSE RefineLoop(es, path, k + 1, Append(refined_path, path[k + 1]), FALSE)
         \cup (IF <<path[k], path[k + 2]>> \in es
               THEN RefineLoop(es, path, k + 1, Append(refined_path, path[k + 2]), TRUE)
               ELSE {})

\* the paths the guarded block can arrive at before path_df is built, each
\* with the stitched path it was refined from and what the pairs did
Matched(c) ==
    LET stitched == {x \in PairLoop(c, 1, <<c.passages[1]>>, Unbound, << >>) : ~x.raised}
    IN UNION {{[path |-> p,
                 trace |-> [es |-> c.es, stitched |-> o.path, path |-> p, pairs |-> o.pairs]] :
                 p \in IF c.algorithm = "refined"
                       THEN RefineLoop(c.es, o.path, 1, <<o.path[1]>>, FALSE)
                       ELSE {o.path}} : o \in stitched}

MatchedPaths(c) == {o.path : o \in Matched(c)}

\* the guarded block raises in the loop over the pairs
PairLoopRaises(c) == \E o \in PairLoop(c, 1, <<c.passages[1]>>, Unbound, << >>) : o.raised

\* nx.shortest_path(G, u, v): one of the paths with the fewest edges
shortest_path(es, u, v) == all_shortest_paths(es, u, v)

\* what the guarded block (lines 835-1003) reads
Contexts(frame, es) ==
    {[es |-> ChannelEdges(es, frame.channel), channel |-> frame.channel,
      passages |-> frame.passages, idx |-> idx, l_max |-> l_max, k_max |-> k_max,
      algorithm |-> frame.algorithm] :
        idx \in Indices, l_max \in LMaxValues, k_max \in KMaxValues}

\* the guarded block raises
Raised(cause, trace) ==
    [raised |-> TRUE, cause |-> cause, path |-> << >>, trace |-> trace]

\* TryOutcomesOf with path_df built without looking the edges up in the table
TryOutcomesUnchecked(c, rows) ==
    {Raised("geometry", NoTrace)}
    \cup (IF PairLoopRaises(c) THEN {Raised("pairs", NoTrace)} ELSE {})
    \cup {[raised |-> FALSE, cause |-> "none", path |-> o.path, trace |-> o.trace] :
             o \in Matched(c)}

\* the ways the guarded block ends for one context: with a path whose edges
\* are all rows of the edge table, or with an exception raised by the loop over
\* the pairs, by .item() on a missing row, or by the geometry of scoring,
\* refinement or evaluation
TryOutcomesOf(c, rows) ==
    {Raised("geometry", NoTrace)}
    \cup (IF PairLoopRaises(c) THEN {Raised("pairs", NoTrace)} ELSE {})
    \cup {IF IsWalk(rows, o.path)
          THEN [raised |-> FALSE, cause |-> "none", path |-> o.path, trace |-> o.trace]
          ELSE Raised("path_df", o.trace) : o \in Matched(c)}

TryOutcomes(frame, es, rows) == UNION {TryOutcomesOf(c, rows) : c \in Contexts(frame, es)}

\* the outcome with or without the record of what the guarded block did
Observed(out, traced) ==
    IF traced THEN out ELSE [out EXCEPT !.trace = NoTrace]

\* lines 835-1003: per-pair matching, refinement, path_df, evaluation
match_try(traced) ==
    /\ m.pc = "try"
    /\ \E out \in {Observed(o, traced) :
                     o \in TryOutcomes(m, Edges(G_pruned), DOMAIN waypoint_connections_pruned.rows)} :
         IF out.raised
         THEN /\ m' = [m EXCEPT !.pc = "except", !.cause = out.cause, !.trace = out.trace]
              /\ ret' = ret
         ELSE /\ m' = NoCall
              /\ \E evaluation \in Evaluations :
                    ret' = Result([m EXCEPT !.trace = out.trace], "success", out.path, evaluation)
    /\ UNCHANGED <<waypoints, snapshots, batch>>

\* lines 1007-1064: the bare except; nothing guards what it runs
match_except ==
    /\ m.pc = "except"
    /\ m' = NoCall
    /\ LET u == m.passages[1]
           v == m.passages[Len(m.passages)]
       IN IF has_path(Edges(G_pruned), u, v)
          THEN \E path \in shortest_path(Edges(G_pruned), u, v), fails \in BOOLEAN :
                  \E evaluation \in Evaluations :
                     ret' = IF fails THEN Escaped(m)
                            ELSE Result(m, "attempt", path, evaluation)
          ELSE ret' = Result(m, "no_path", << >>, NoEvaluation)
    /\ UNCHANGED <<waypoints, snapshots, batch>>

\* ----------------------------------------------------------- evaluate_graph
\* lines 1131-1139: the loop over the trajectories starts
evaluate_graph ==
    /\ ret = Idle /\ m = NoCall /\ batch = NoBatch
    /\ G_pruned.built
    /\ \E n \in 1 .. MaxBatch : batch' = [todo |-> n, records |-> 0, size |-> n]
    /\ UNCHANGED <<waypoints, snapshots, ret, m>>

\* lines 1144-1148: the call returned and its records are appended, or it
\* raised and, with no handler in the loop, the exception leaves evaluate_graph
evaluate_next ==
    /\ ret.op = "match"
    /\ IF ret.raised
       THEN /\ batch' = NoBatch
            /\ ret' = [op |-> "evaluate_graph", raised |-> TRUE, size |-> batch.size,
                       records |-> batch.records]
       ELSE IF batch.todo = 1
       THEN /\ batch' = NoBatch
            /\ ret' = [op |-> "evaluate_graph", raised |-> FALSE, size |-> batch.size,
                       records |-> batch.records + 1]
       ELSE /\ batch' = [batch EXCEPT !.todo = @ - 1, !.records = @ + 1]
            /\ ret' = Idle
    /\ UNCHANGED <<waypoints, snapshots, m>>

\* ------------------------------------------------- dijkstra_shortest_path
\* the edge feature nx.dijkstra_path adds up
WeightNames == {"inverse_weight", "weight"}

\* every edge counts 1, whatever its feature
HopCost(g, weight, e) == Rat(1, 1)

\* G[u][v][weight] of an edge
EdgeCost(g, weight, e) ==
    IF weight = "inverse_weight" THEN g.inverse_weight[e] ELSE Rat(g.weight[e], 1)

RECURSIVE DijkstraDist(_, _, _, _)
\* Dijkstra's algorithm: dist holds the distance of every node seen so far,
\* done the nodes whose distance is final; the closest open node is settled
\* and its out-edges are relaxed
DijkstraDist(g, weight, dist, done) ==
    LET open == (DOMAIN dist) \ done
    IN IF open = {} THEN dist
       ELSE LET u == CHOOSE x \in open : \A y \in open : ~RatLess(dist[y], dist[x])
                out == {e[2] : e \in {d \in Edges(g) : d[1] = u /\ d[2] \notin done}}
                via(v) == RatAdd(dist[u], EdgeCost(g, weight, <<u, v>>))
                next == [v \in (DOMAIN dist) \cup out |->
                           IF v \in out /\ (v \notin DOMAIN dist \/ RatLess(via(v), dist[v]))
                           THEN via(v) ELSE dist[v]]
            IN DijkstraDist(g, weight, next, done \cup {u})

\* the paths Dijkstra's predecessors can spell: simple paths from orig to dest
\* along edges (a, b) with dist[a] + cost(a, b) = dist[b]
DijkstraPaths(g, weight, orig, dest) ==
    LET dist == DijkstraDist(g, weight, [n \in {orig} |-> Zero], {})
        tight == {e \in Edges(g) :
                    /\ e[1] \in DOMAIN dist /\ e[2] \in DOMAIN dist
                    /\ RatEq(RatAdd(dist[e[1]], EdgeCost(g, weight, e)), dist[e[2]])}
    IN IF dest \notin DOMAIN dist THEN {}
       ELSE SimplePathsFrom(tight, <<orig>>, dest, Cardinality(g.nodes))

\* orig and dest as a caller can give them: a waypoint id, or an id that is none
NodeIds == Nodes \cup {NWaypoints}

dijkstra_shortest_path ==
    /\ ret = Idle /\ batch = NoBatch
    /\ \E orig \in NodeIds, dest \in NodeIds, weight \in WeightNames :
         LET paths == IF G_pruned.built /\ orig \in G_pruned.nodes /\ dest \in G_pruned.nodes
                      THEN DijkstraPaths(G_pruned, weight, orig, dest) ELSE {}
             call == [op |-> "dijkstra", raised |-> FALSE, orig |-> orig, dest |-> dest,
                      weight |-> weight]
         IN IF paths = {}
            THEN \* nx.dijkstra_path raised inside the try: 'return False'
                 ret' = [found |-> FALSE, path |-> << >>] @@ call
            ELSE \E path \in paths :
                    ret' = [found |-> TRUE, path |-> path] @@ call
    /\ UNCHANGED <<waypoints, snapshots, m, batch>>

\* the caller takes the result; the object is ready for the next call
Return ==
    /\ ret # Idle
    /\ ret.op # "match"
    /\ ret' = Idle
    /\ UNCHANGED <<waypoints, snapshots, m, batch>>

\* ------------------------------------------------------- specifications
\* the whole life of one network object, from a sample of data sets
Init == InitWith({WaypointTable(3)})

LocateSample ==
    {LocateFailed,
     [located |-> TRUE, orig_WP |-> 0, dest_WP |-> 2, dist_orig |-> 50, dist_dest |-> 50],
     [located |-> TRUE, orig_WP |-> 1, dest_WP |-> 1, dist_orig |-> 50, dist_dest |-> 150]}

HitSample == {<< >>, <<1>>, <<0, 2>>}

Next ==
    \/ make_graph_from_waypoints(SampleDatasets)
    \/ prune_graph
    \/ refine_graph_from_paths(MaxPathLen, ElapsedPositive)
    \/ evaluate_graph
    \/ match_locate(LocateSample, HitSample)
    \/ match_branch
    \/ match_try(FALSE)
    \/ match_except
    \/ evaluate_next
    \/ Return

Spec == Init /\ [][Next]_vars

\* graph construction from every data set within the bounds
InitBuild == InitWith(WaypointTables)

NextBuild ==
    \/ make_graph_from_waypoints(RawDatasets)
    \/ Return

SpecBuild == InitBuild /\ [][NextBuild]_vars

\* construction and pruning
NextPrune ==
    \/ make_graph_from_waypoints(AllDatasets)
    \/ prune_graph
    \/ Return

SpecPrune == InitBuild /\ [][NextPrune]_vars

\* construction and refinement
NextRefine ==
    \/ make_graph_from_waypoints(AllDatasets)
    \/ refine_graph_from_paths(MaxPathLen, ElapsedPositive)
    \/ Return

SpecRefine == Init /\ [][NextRefine]_vars

\* construction, pruning and the matching of every trajectory within the bounds
NextMatch ==
    \/ make_graph_from_waypoints(SampleDatasets)
    \/ prune_graph
    \/ evaluate_graph
    \/ match_locate(LocateOutcomes, HitLists)
    \/ match_branch
    \/ match_try(FALSE)
    \/ match_except
    \/ evaluate_next
    \/ Return

SpecMatch == InitBuild /\ [][NextMatch]_vars

\* trajectories that sail 0 -> 1 -> 2 often and 0 -> 2 once
TrafficDataset ==
    [t \in 1 .. (NTraj + 2) |-> IF t = 1 THEN <<0, 2>> ELSE <<0, 1, 2>>]

\* construction, pruning and shortest-path queries
NextDijkstra ==
    \/ make_graph_from_waypoints(SampleDatasets \cup {TrafficDataset})
    \/ prune_graph
    \/ refine_graph_from_paths(MaxPathLen, ElapsedPositive)
    \/ dijkstra_shortest_path
    \/ Return

SpecDijkstra == InitBuild /\ [][NextDijkstra]_vars

\* a network of waypoints 0 .. MaxChain without course data
ChainTable == [n \in 0 .. MaxChain |-> [cog_before |-> NaN, cog_after |-> NaN]]

\* the trajectory that passes the waypoints 0, 1, .., n in a row
Chain(n) == [i \in 1 .. (n + 1) |-> i - 1]

\* detours trajectories passing 0, 1, .., n and direct trajectories passing
\* 0 and n only
ChainDataset(n, detours, direct) ==
    [t \in 1 .. (detours + direct) |-> IF t <= detours THEN Chain(n) ELSE <<0, n>>]

ChainDatasets ==
    {ChainDataset(n, detours, direct) : n \in 1 .. MaxChain, detours \in 1 .. 2, direct \in 1 .. 2}

\* construction and pruning of the chain networks
NextChain ==
    \/ make_graph_from_waypoints(ChainDatasets)
    \/ prune_graph
    \/ Return

SpecChain == InitWith({ChainTable}) /\ [][NextChain]_vars

\* matching of a sample of trajectories, with the record of what the loop over
\* the pairs and the refinement did; one of the graphs joins 1 to 2 directly
\* and by way of 0
DetourDataset == Dataset(<<0, 1, 2>>, <<1, 0, 2>>)

NextPairs ==
    \/ make_graph_from_waypoints(SampleDatasets \cup {DetourDataset})
    \/ prune_graph
    \/ evaluate_graph
    \/ match_locate(LocateSample, HitSample)
    \/ match_branch
    \/ match_try(TRUE)
    \/ match_except
    \/ evaluate_next
    \/ Return

SpecPairs == InitBuild /\ [][NextPairs]_vars

\* a data set whose graph has a cycle, so that a path can sail an edge more
\* than once, and one whose graph has none
CycleDatasets == {Dataset(<<0, 1>>, <<1, 0>>), Dataset(<<0, 1>>, <<1, 2>>)}

\* construction and refinement from paths with any passage times
NextSpeed ==
    \/ make_graph_from_waypoints(CycleDatasets)
    \/ refine_graph_from_paths(MaxTimedPathLen, ElapsedValues)
    \/ Return

SpecSpeed == Init /\ [][NextSpeed]_vars

\* ------------------------------------------------------------------ claims
PruneReturned == ret.op = "prune" /\ ~ret.raised /\ ret.graph \in {"original", "refined"}

\* the snapshot the last prune_graph call read
PruneSource == IF ret.graph = "original" THEN G ELSE G_refined

\* C1: after make_graph_from_waypoints the raw graph has no self-loop (u,u) and
\* every edge carries an integer passage weight >= 1.
C1_NoSelfLoopWeightAtLeastOne ==
    G.built => \A e \in Edges(G) :
                  e[1] # e[2] /\ G.weight[e] \in Nat /\ G.weight[e] >= 1

C1_Witness ==
    /\ ret.op = "make_graph" /\ ~ret.raised
    /\ \E e \in Edges(G) : G.weight[e] = 2
    /\ \E e \in Edges(G) : G.weight[e] = 1

\* C2: for any waypoints and trajectories, also when no trajectory passes two
\* distinct waypoints, make_graph_from_waypoints completes with a graph whose
\* nodes are all the waypoints and whose edges join nodes.
C2_BuildCompletesWithAllWaypoints ==
    ret.op = "make_graph" =>
        /\ ~ret.raised
        /\ G.built
        /\ G.nodes = Nodes
        /\ \A e \in Edges(G) : e[1] \in G.nodes /\ e[2] \in G.nodes

\* C3: in every graph snapshot (raw, pruned, refined) every edge has
\* weight >= 1 and inverse_weight = 1/weight.
C3_InverseWeightEverywhere ==
    \A g \in {G, G_pruned, G_refined} :
        g.built => \A e \in Edges(g) :
                      g.weight[e] >= 1 /\ RatIsInverseOf(g.inverse_weight[e], g.weight[e])

\* C4: prune_graph returns a graph with exactly the node set of its input and
\* an edge set that is a subset of the input's, so no more edges than the input.
C4_PruneKeepsNodesDropsOnlyEdges ==
    PruneReturned =>
        /\ G_pruned.built
        /\ G_pruned.nodes = PruneSource.nodes
        /\ Edges(G_pruned) \subseteq Edges(PruneSource)
        /\ Cardinality(Edges(G_pruned)) <= Cardinality(Edges(PruneSource))

\* pruning the refined graph leaves a node isolated that had an edge before
C4_Witness ==
    /\ PruneReturned
    /\ ret.graph = "refined"
    /\ \E n \in G_pruned.nodes :
          /\ \E e \in Edges(PruneSource) : n \in {e[1], e[2]}
          /\ \A e \in Edges(G_pruned) : n \notin {e[1], e[2]}

\* the circular distance between two bearings, a value in [0, 180]
CircularDistance(a, b) ==
    LET d == Abs(a - b) % 360 IN IF d > 180 THEN 360 - d ELSE d

Within90(course, bearing) == course # NaN /\ CircularDistance(course, bearing) <= 90

\* an edge the claim protects: heavy enough and consistent with both endpoints
Protected(g, e, min_passages) ==
    /\ g.weight[e] >= min_passages
    /\ Within90(g.cog_after[e[1]], g.direction[e])
    /\ Within90(g.cog_before[e[2]], g.direction[e])

\* C5: prune_graph never removes an edge (u,v) whose weight is >= min_passages
\* and whose bearing is within 90 degrees of u's course-after and of v's
\* course-before, whatever the other edges and the edge iteration order.
C5_ProtectedEdgeKept ==
    PruneReturned =>
        \A e \in Edges(PruneSource) :
            Protected(PruneSource, e, ret.min_passages) => e \in Edges(G_pruned)

\* a protected edge with an alternative route survives while another edge goes
C5_Witness ==
    /\ PruneReturned
    /\ \E e \in Edges(PruneSource) :
          /\ Protected(PruneSource, e, ret.min_passages)
          /\ has_path(Edges(PruneSource) \ {e}, e[1], e[2])
          /\ e \in Edges(G_pruned)
    /\ Edges(G_pruned) # Edges(PruneSource)

\* number of times (u,v) is a consecutive pair of one of the paths
Occurrences(paths, e) ==
    Cardinality({ij \in (DOMAIN paths) \X (1 .. MaxPathLen) :
                    /\ ij[2] \in PairIdx(paths[ij[1]])
                    /\ <<paths[ij[1]][ij[2]], paths[ij[1]][ij[2] + 1]>> = e})

\* C7: after refine_graph_from_paths an edge of the base graph is in the
\* refined graph iff it is a consecutive pair of some path; its weight and the
\* passages of its row are the number of such occurrences; the nodes are
\* unchanged; an empty path list leaves no edge.
C7_RefinedWeightsCountPassages ==
    (ret.op = "refine" /\ ~ret.raised) =>
        /\ G_refined.nodes = G.nodes
        /\ Edges(G_refined) \subseteq Edges(G)
        /\ DOMAIN waypoint_connections_refined.rows = Edges(G_refined)
        /\ \A e \in Edges(G) :
              /\ e \in Edges(G_refined) <=> Occurrences(ret.paths, e) >= 1
              /\ e \in Edges(G_refined) =>
                    /\ G_refined.weight[e] = Occurrences(ret.paths, e)
                    /\ waypoint_connections_refined.rows[e].passages = Occurrences(ret.paths, e)
        /\ ret.paths = << >> => Edges(G_refined) = {}

C7_Witness ==
    /\ ret.op = "refine" /\ ~ret.raised
    /\ \E e \in Edges(G_refined) : G_refined.weight[e] = 2
    /\ Edges(G_refined) # Edges(G)

C7_WitnessEmpty ==
    ret.op = "refine" /\ ~ret.raised /\ ret.paths = << >> /\ Edges(G) # {} /\ Edges(G_refined) = {}
\* the steps of a trajectory_to_path_sspd call
MatchStep == m # NoCall \/ m' # NoCall

\* C6: prune_graph, refine_graph_from_paths and trajectory_to_path_sspd never
\* modify the snapshots they read: once built, the raw graph and the raw edge
\* table stay what make_graph_from_waypoints produced; prune_graph leaves the
\* refined snapshot it may read unchanged; no step of a match changes the
\* pruned graph, the pruned edge table or the waypoint table, so every
\* trajectory of a batch is matched against the same snapshots.
C6_SnapshotsNotModified ==
    [][/\ G.built => (G' = G /\ waypoint_connections' = waypoint_connections)
       /\ (ret = Idle /\ ret'.op = "prune") =>
             UNCHANGED <<G, waypoint_connections, G_refined, waypoint_connections_refined>>
       /\ (ret = Idle /\ ret'.op = "refine") => UNCHANGED <<G, waypoint_connections>>
       /\ MatchStep => UNCHANGED <<waypoints, snapshots>>]_vars

\* the second trajectory of a batch is matched after pruning and refinement
\* both produced snapshots that differ from the raw graph
C6_Witness ==
    /\ ret.op = "match" /\ ret.message = "success"
    /\ batch.records >= 1
    /\ G_refined.built /\ Edges(G_refined) # Edges(G)
    /\ Edges(G_pruned) # Edges(G)
    /\ Edges(G) # {}

StatusTags == {"success", "attempt", "no_path", "no_intersects"}

\* C8: every trajectory_to_path_sspd call returns with one of the four status
\* tags and no exception leaves it, so evaluate_graph ends with one record per
\* trajectory and is never aborted.
C8_EveryCallReturnsAStatus ==
    /\ ret.op = "match" => ~ret.raised /\ ret.message \in StatusTags
    /\ ret.op = "evaluate_graph" => ~ret.raised /\ ret.records = ret.size

\* the call got as far as the reconciliation of the endpoints
Reconciled == ret.op = "match" /\ ret.cause # "intersections"

\* C9: the call ends with no_intersects exactly when fewer than 2 passages
\* remain after endpoint reconciliation; with 2 or more its outcome is one of
\* success, attempt, no_path.
C9_NoIntersectsIffFewPassages ==
    Reconciled =>
        /\ ret.message = "no_intersects" <=> Len(ret.passages) < 2
        /\ Len(ret.passages) >= 2 => ret.message \in {"success", "attempt", "no_path"}

\* C10 as stated: located origin = located destination gives no_intersects
C10_SameEndpointsNoIntersects ==
    (ret.op = "match" /\ ret.same_located) => ret.message = "no_intersects"

\* C10, amended: when the located origin and destination are the same waypoint
\* and find_WP_intersections returns no passage, the call returns no_intersects.
C10_SameEndpointsNoHitsNoIntersects ==
    (Reconciled /\ ret.same_located /\ ret.hits = 0) =>
        ~ret.raised /\ ret.message = "no_intersects" /\ ret.passages = << >>

C10_Witness ==
    /\ Reconciled /\ ret.same_located /\ ret.hits = 0
    /\ ret.message = "no_intersects"
    /\ batch.size = 2 /\ batch.records = 1
\* C11 as stated: when locating the endpoints fails, the call that returns ends
\* with no_intersects or no_path, never with success or attempt
C11_LocateFailureNeverMatches ==
    (ret.op = "match" /\ ~ret.raised /\ ~ret.located) =>
        ret.message \in {"no_intersects", "no_path"}

\* C11, amended: when locating the endpoints fails, origin and destination
\* default to waypoint 0 with infinite distance, so neither is added to the
\* passages: the passages after reconciliation are the intersections found,
\* and the call ends with no_intersects when fewer than 2 were found.
C11_LocateFailureKeepsIntersections ==
    /\ (m.pc = "reconciled" /\ ~m.located) =>
          /\ m.loc.orig_WP = 0 /\ m.loc.dest_WP = 0
          /\ m.loc.dist_orig = Inf /\ m.loc.dist_dest = Inf
          /\ Len(m.passages) = m.hits
    /\ (Reconciled /\ ~ret.located) =>
          /\ Len(ret.passages) = ret.hits
          /\ ret.hits < 2 => (~ret.raised /\ ret.message = "no_intersects")

\* the endpoints could not be located, one waypoint was passed, and a path
\* leads from waypoint 0 to it
C11_Witness ==
    /\ Reconciled /\ ~ret.located /\ ret.hits = 1
    /\ ret.message = "no_intersects"
    /\ ret.passages # <<0>>
    /\ has_path(Edges(G_pruned), 0, ret.passages[1])

\* the endpoints could not be located and the call matched the passages found
C11_WitnessMatched ==
    ret.op = "match" /\ ~ret.located /\ ret.message = "success" /\ Len(ret.path) >= 2
\* C12: with 2 or more passages the outcome is success only if the guarded
\* block (per-pair matching, refinement, path_df, evaluation) raised nothing;
\* if it raised, the outcome is attempt with a hop-count shortest path of the
\* pruned graph from the first to the last passage when one exists, and
\* no_path otherwise.
C12_FallbackAfterRaise ==
    (Reconciled /\ Len(ret.passages) >= 2) =>
        LET u == ret.passages[1]
            v == ret.passages[Len(ret.passages)]
            es == Edges(G_pruned)
        IN /\ ret.cause = "none" <=> ret.message = "success"
           /\ ret.cause # "none" =>
                 IF has_path(es, u, v)
                 THEN /\ ret.message = "attempt"
                      /\ ret.path \in all_shortest_paths(es, u, v)
                 ELSE ret.message = "no_path" /\ ret.path = << >>
\* C13: whenever the outcome is no_path or no_intersects, the path record has
\* no edge, the SSPD is NaN and the covered fraction is 0.
C13_NoMatchIsEmpty ==
    (ret.op = "match" /\ ret.message \in {"no_path", "no_intersects"}) =>
        /\ ret.rows = 0 /\ ret.path = << >>
        /\ ret.SSPD = NaN
        /\ ret.fraction_covered = 0

\* no_path after the guarded block raised on three passages
C13_Witness ==
    /\ ret.op = "match" /\ ret.message = "no_path"
    /\ Len(ret.passages) = 3
    /\ ret.rows = 0 /\ ret.SSPD = NaN

C13_WitnessNoIntersects ==
    ret.op = "match" /\ ret.message = "no_intersects" /\ Len(ret.passages) = 1 /\ ret.SSPD = NaN
\* C14: every path emitted with status success or attempt, in standard and
\* in refined mode, is a walk in the pruned graph, each consecutive pair an
\* edge with a row in the pruned edge table, and refine_graph_from_paths
\* accepts it.
C14_EmittedPathIsWalk ==
    (ret.op = "match" /\ ret.message \in {"success", "attempt"}) =>
        /\ Len(ret.path) >= 1
        /\ IsWalk(Edges(G_pruned), ret.path)
        /\ IsWalk(DOMAIN waypoint_connections_pruned.rows, ret.path)
        /\ ~RefinedWeights(G, <<ret.path>>).raised

\* refined mode dropped the middle one of three passages
C14_Witness ==
    /\ ret.op = "match" /\ ret.message = "success" /\ ret.algorithm = "refined"
    /\ Len(ret.passages) = 3
    /\ ret.path = <<ret.passages[1], ret.passages[3]>>
    /\ IsWalk(Edges(G_pruned), ret.passages)

C14_WitnessStandard ==
    /\ ret.op = "match" /\ ret.message = "success" /\ ret.algorithm = "standard"
    /\ Len(ret.path) = 3

C14_WitnessAttempt ==
    ret.op = "match" /\ ret.message = "attempt" /\ ret.cause = "path_df" /\ Len(ret.path) = 3
\* the value of the named feature of edge e: 1/weight, or weight
Feature(g, weight, e) ==
    IF weight = "inverse_weight" THEN g.inverse_weight[e] ELSE Rat(g.weight[e], 1)

RECURSIVE PathCost(_, _, _, _)
\* the summed feature along the pairs j .. of a path
PathCost(g, weight, path, j) ==
    IF j > Len(path) - 1 THEN Zero
    ELSE RatAdd(Feature(g, weight, <<path[j], path[j + 1]>>), PathCost(g, weight, path, j + 1))

\* every simple path of the graph from u to v
AllPaths(g, u, v) == SimplePathsFrom(Edges(g), <<u>>, v, Cardinality(g.nodes))

DijkstraAnswered ==
    IF G_pruned.built /\ ret.orig \in G_pruned.nodes /\ ret.dest \in G_pruned.nodes
       /\ has_path(Edges(G_pruned), ret.orig, ret.dest)
    THEN /\ ret.found
         /\ ret.path \in AllPaths(G_pruned, ret.orig, ret.dest)
         /\ \A q \in AllPaths(G_pruned, ret.orig, ret.dest) :
               ~RatLess(PathCost(G_pruned, ret.weight, q, 1),
                        PathCost(G_pruned, ret.weight, ret.path, 1))
    ELSE ~ret.found

\* C15: dijkstra_shortest_path(orig, dest) returns a path of the pruned graph
\* from orig to dest whose summed weight field is minimal among all paths from
\* orig to dest; when dest is not reachable it returns False; it never raises
\* and changes no graph.
C15_DijkstraMinimalOrFalse ==
    [][ret'.op = "dijkstra" =>
          /\ ~ret'.raised
          /\ DijkstraAnswered'
          /\ UNCHANGED <<waypoints, snapshots>>]_vars

\* the two-hop route over the busy edges is returned although the direct edge
\* exists, because the inverse weights along it add up to less
C15_Witness ==
    /\ ret.op = "dijkstra" /\ ret.found /\ ret.weight = "inverse_weight"
    /\ Len(ret.path) = 3
    /\ <<ret.orig, ret.dest>> \in Edges(G_pruned)
    /\ RatLess(PathCost(G_pruned, ret.weight, ret.path, 1),
               Feature(G_pruned, ret.weight, <<ret.orig, ret.dest>>))

C15_WitnessUnreachable ==
    /\ ret.op = "dijkstra" /\ ~ret.found /\ G_pruned.built
    /\ ret.orig \in Nodes /\ ret.dest \in Nodes /\ Edges(G_pruned) # {}
\* the positions of s that hold the first occurrence of their waypoint
FirstAt(s) == {i \in DOMAIN s : \A j \in DOMAIN s : j < i => s[j] # s[i]}

\* v immediately follows u among the first occurrences of s
Follows(s, u, v) ==
    \E i \in FirstAt(s), k \in FirstAt(s) :
        /\ i < k /\ s[i] = u /\ s[k] = v
        /\ \A j \in FirstAt(s) : ~(i < j /\ j < k)

\* the number of trajectories in which v immediately follows u
FollowCount(trajectories, u, v) ==
    Cardinality({t \in DOMAIN trajectories : Follows(trajectories[t], u, v)})

\* C16: make_graph_from_waypoints gives edge (u,v) the number of times v
\* immediately follows u in a trajectory's passage sequence after
\* first-occurrence-wins de-duplication, summed over the trajectories; the
\* edges are exactly the pairs with a count >= 1.
C16_WeightCountsFollows ==
    (ret.op = "make_graph" /\ ~ret.raised) =>
        \A u \in Nodes, v \in Nodes :
            LET n == FollowCount(ret.trajectories, u, v)
            IN /\ <<u, v>> \in Edges(G) <=> n >= 1
               /\ n >= 1 => /\ G.weight[<<u, v>>] = n
                             /\ waypoint_connections.rows[<<u, v>>].passages = n

\* a trajectory passes A, B, A and leaves A -> B only
C16_Witness ==
    /\ ret.op = "make_graph" /\ ~ret.raised
    /\ \E t \in DOMAIN ret.trajectories :
          /\ Len(ret.trajectories[t]) = 3
          /\ ret.trajectories[t][1] = ret.trajectories[t][3]
          /\ ret.trajectories[t][1] # ret.trajectories[t][2]
          /\ <<ret.trajectories[t][1], ret.trajectories[t][2]>> \in Edges(G)
          /\ <<ret.trajectories[t][2], ret.trajectories[t][1]>> \notin Edges(G)
    /\ \E e \in Edges(G) : G.weight[e] = 2
\* the direction filter as the claim states it: both circular distances
\* exceed 90 degrees, or an endpoint has no course
LacksCourse(g, e) == g.cog_after[e[1]] = NaN \/ g.cog_before[e[2]] = NaN

ClaimedDirectionMark(g, e) ==
    \/ LacksCourse(g, e)
    \/ /\ CircularDistance(g.cog_after[e[1]], g.direction[e]) > 90
       /\ CircularDistance(g.cog_before[e[2]], g.direction[e]) > 90

C17_WithCourses ==
    PruneReturned =>
        \A e \in Edges(PruneSource) :
            ~LacksCourse(PruneSource, e) =>
                /\ ClaimedDirectionMark(PruneSource, e) => e \notin Edges(G_pruned)
                /\ (ret.min_passages = 1 /\ e \notin Edges(G_pruned)) =>
                      ClaimedDirectionMark(PruneSource, e)
\* the edges the redundancy filter tests
LowWeight(g, min_passages) == {e \in Edges(g) : g.weight[e] < min_passages}

\* e is the only edge the redundancy filter tests: the working copy it is
\* tested on is the input graph without e
TestedAlone(g, min_passages, e) == LowWeight(g, min_passages) = {e}

\* C18 as stated: a low-weight edge is marked whenever the working copy
\* without it still joins u to v by a shortest path of at most 5 edges, and is
\* not marked when there is no path or the shortest has more than 5 edges
C18_RedundantWithinFiveEdges ==
    PruneReturned =>
        \A e \in Edges(PruneSource) :
            (TestedAlone(PruneSource, ret.min_passages, e) /\ e \notin DirectionFilter(PruneSource)) =>
                LET alt == Edges(PruneSource) \ {e}
                IN e \notin Edges(G_pruned) <=>
                      (has_path(alt, e[1], e[2]) /\ Hops(alt, e[1], e[2]) <= 5)

\* C18, amended: a low-weight edge is marked whenever the working copy without
\* it still joins u to v by a shortest path of at most 5 nodes, that is at
\* most 4 edges; it is not marked when there is no path or the shortest path
\* has 5 edges or more.
C18_RedundantWithinFourEdges ==
    PruneReturned =>
        \A e \in Edges(PruneSource) :
            (TestedAlone(PruneSource, ret.min_passages, e) /\ e \notin DirectionFilter(PruneSource)) =>
                LET alt == Edges(PruneSource) \ {e}
                IN e \notin Edges(G_pruned) <=>
                      (has_path(alt, e[1], e[2]) /\ Hops(alt, e[1], e[2]) <= 4)

\* the direct edge stays although a detour of exactly 5 edges exists
C18_Witness ==
    /\ PruneReturned
    /\ \E e \in Edges(PruneSource) :
          /\ TestedAlone(PruneSource, ret.min_passages, e)
          /\ Hops(Edges(PruneSource) \ {e}, e[1], e[2]) = 5
          /\ e \in Edges(G_pruned)

\* the direct edge goes when the detour has 4 edges
C18_WitnessFour ==
    /\ PruneReturned
    /\ \E e \in Edges(PruneSource) :
          /\ TestedAlone(PruneSource, ret.min_passages, e)
          /\ Hops(Edges(PruneSource) \ {e}, e[1], e[2]) = 4
          /\ e \notin Edges(G_pruned)

\* the edges prune_graph removed because of the redundancy filter alone
RemovedAsRedundant ==
    {e \in Edges(PruneSource) : e \notin Edges(G_pruned) /\ e \notin DirectionFilter(PruneSource)}

\* C19: for every edge (u,v) that prune_graph removes because of the
\* redundancy filter and not because of the direction filter, the pruned graph
\* still contains a directed path from u to v
C19_RemovedEdgeStaysConnected ==
    PruneReturned =>
        \A e \in RemovedAsRedundant : has_path(Edges(G_pruned), e[1], e[2])

\* the redundancy filter removed an edge and the pruned graph keeps a route
C19_Witness ==
    /\ PruneReturned
    /\ \E e \in RemovedAsRedundant : has_path(Edges(G_pruned), e[1], e[2])

\* the second loop of prune_graph after the first i edges of order
FilterPrefix(g, min_passages, order, i) ==
    RedundancyFilter(g, min_passages, SubSeq(order, 1, i), 1,
                     [temp |-> Edges(g), marked |-> DirectionFilter(g)])

\* C20: tentative removals from the working copy are cumulative: after any
\* number of iterations, in any iteration order, the working copy is the input
\* graph without every low-weight edge tested so far, whether or not the edge
\* was marked (the order dependence itself is the state C20_Witness)
C20_TentativeRemovalsCumulative ==
    PruneReturned =>
        \A order \in EdgeOrders(Edges(PruneSource)) :
            \A i \in 0 .. Len(order) :
                FilterPrefix(PruneSource, ret.min_passages, order, i).temp =
                    Edges(PruneSource) \
                        {order[j] : j \in {k \in 1 .. i : PruneSource.weight[order[k]] < ret.min_passages}}

\* a graph and a min_passages for which two iteration orders over the same
\* edge set give different pruned edge sets, one of them the pruned graph the
\* call produced, with a low-weight edge that was tested and not marked
C20_Witness ==
    /\ PruneReturned
    /\ \E o1, o2 \in EdgeOrders(Edges(PruneSource)) :
          /\ EdgesToRemove(PruneSource, ret.min_passages, o1) # EdgesToRemove(PruneSource, ret.min_passages, o2)
          /\ Edges(G_pruned) = Edges(PruneSource) \ EdgesToRemove(PruneSource, ret.min_passages, o1)
          /\ LowWeight(PruneSource, ret.min_passages) \ EdgesToRemove(PruneSource, ret.min_passages, o1) # {}

\* the thresholds the pruned graph of a call is compared with
Thresholds == 1 .. (MaxMinPassages + 1)

\* C21: for a fixed input graph and a fixed edge iteration order, raising
\* min_passages never makes prune_graph keep an edge it removed at the lower
\* threshold: the edges kept at a larger min_passages are among the edges
\* kept by the call
C21_HigherThresholdKeepsNoMore ==
    PruneReturned =>
        \A order \in EdgeOrders(Edges(PruneSource)) :
            Edges(G_pruned) = Edges(PruneSource) \ EdgesToRemove(PruneSource, ret.min_passages, order) =>
                \A larger \in Thresholds :
                    larger > ret.min_passages =>
                        Edges(PruneSource) \ EdgesToRemove(PruneSource, larger, order) \subseteq Edges(G_pruned)

RefineReturned == ret.op = "refine" /\ ~ret.raised

\* C22: after refine_graph_from_paths the speed distribution of every
\* retained edge holds exactly one value per recorded passage: its size equals
\* the weight of the edge
C22_OneSpeedPerPassage ==
    RefineReturned =>
        \A e \in Edges(G_refined) :
            Len(G_refined.speed_distribution[e]) = G_refined.weight[e]

\* every passage took a positive time, and an edge one path sailed twice has
\* one speed for its two passages
C22_SailedTwiceOneSpeed ==
    /\ RefineReturned
    /\ \A i \in DOMAIN ret.paths : \A j \in PairIdx(ret.paths[i]) : ret.clips[i][j].elapsed > 0
    /\ \E e \in Edges(G_refined) :
          G_refined.weight[e] = 2 /\ Len(G_refined.speed_distribution[e]) = 1

\* the same for the edges every path sails at most once, in a positive time
C22_OneSpeedPerTimedPath ==
    RefineReturned =>
        \A e \in Edges(G_refined) :
            (\A i \in DOMAIN ret.paths :
                /\ Occurrences(<<ret.paths[i]>>, e) <= 1
                /\ \A j \in PairIdx(ret.paths[i]) : ret.clips[i][j].elapsed > 0)
            => Len(G_refined.speed_distribution[e]) = G_refined.weight[e]

\* C23: the transit speed of a passage is sub-segment length divided by
\* elapsed time when the elapsed time is positive and 0 when it is zero or
\* negative; no passage causes a division by zero
C23_SpeedGuardsElapsedTime ==
    ret.op = "refine" =>
        /\ ret.error # "ZeroDivisionError"
        /\ ~ret.raised =>
              \A i \in DOMAIN ret.paths : \A j \in PairIdx(ret.paths[i]) :
                  LET clip == ret.clips[i][j]
                      speed == ret.speed[i][j]
                  IN IF clip.elapsed > 0
                     THEN speed.den # 0 /\ speed.num * clip.elapsed = clip.length * speed.den
                     ELSE speed = Zero

\* a call that returned with a passage of zero and one of positive elapsed time
C23_Witness ==
    /\ RefineReturned
    /\ \E i \in DOMAIN ret.paths : \E j, k \in PairIdx(ret.paths[i]) :
          /\ ret.clips[i][j].elapsed = 0 /\ ret.speed[i][j] = Zero
          /\ ret.clips[i][k].elapsed > 0 /\ ret.speed[i][k].num > 0

RECURSIVE IsSubsequence(_, _)
\* the elements of s occur in t in the order of s
IsSubsequence(s, t) ==
    IF s = << >> THEN TRUE
    ELSE IF t = << >> THEN FALSE
    ELSE IF Head(s) = Head(t) THEN IsSubsequence(Tail(s), Tail(t))
    ELSE IsSubsequence(s, Tail(t))

\* C27: when trajectory_to_path_sspd returns success in standard mode, the
\* emitted path begins with the first reconciled passage, ends with the last
\* reconciled passage and contains every reconciled passage in order
C27_SuccessPathVisitsPassages ==
    (ret.op = "match" /\ ~ret.raised /\ ret.message = "success" /\ ret.algorithm = "standard") =>
        /\ ret.path[1] = ret.passages[1]
        /\ ret.path[Len(ret.path)] = ret.passages[Len(ret.passages)]
        /\ IsSubsequence(ret.passages, ret.path)

\* a success in standard mode whose path has an edge and stops before the
\* last reconciled passage
C27_StopsShort ==
    /\ ret.op = "match" /\ ~ret.raised /\ ret.message = "success" /\ ret.algorithm = "standard"
    /\ Len(ret.path) >= 2
    /\ ret.path[Len(ret.path)] # ret.passages[Len(ret.passages)]

\* a matching call returned with the record of its pairs
Traced == ret.op = "match" /\ ~ret.raised /\ ret.trace # NoTrace

\* the pairs the loop did not skip
Processed == {i \in DOMAIN ret.trace.pairs : ret.trace.pairs[i].mode # "skipped"}

\* C24 as stated: only all shortest paths are enumerated when the two indices
\* are within 3 samples of each other or the shortest-path hop count in the
\* channel graph exceeds l_max; in every other case all simple paths up to
\* length l_max are enumerated
C24_ShortestIffCloseOrHopsAbove ==
    Traced =>
        \A i \in Processed :
            LET p == ret.trace.pairs[i]
                shortest == (p.idx2 - p.idx1) <= 3 \/ p.hops > p.l_max
            IN /\ shortest => p.mode = "shortest"
               /\ ~shortest => p.mode = "simple"

\* C24, amended: only all shortest paths are enumerated when the two indices
\* are within 3 samples of each other or the shortest path has more than l_max
\* nodes, that is when its hop count is l_max or more; in every other case
\* (indices more than 3 apart and hop count < l_max) all simple paths up to
\* length l_max are enumerated.
C24_ShortestIffCloseOrNodesAbove ==
    Traced =>
        \A i \in Processed :
            LET p == ret.trace.pairs[i]
                shortest == (p.idx2 - p.idx1) <= 3 \/ p.hops + 1 > p.l_max
            IN /\ shortest => p.mode = "shortest"
               /\ ~shortest => p.mode = "simple"

\* a pair more than 3 samples apart whose shortest path has exactly l_max
\* edges: only the shortest paths are enumerated
C24_Witness ==
    /\ Traced
    /\ \E i \in Processed :
          LET p == ret.trace.pairs[i]
          IN (p.idx2 - p.idx1) > 3 /\ p.hops = p.l_max /\ p.mode = "shortest"

\* a pair for which all simple paths are enumerated
C24_WitnessSimple ==
    /\ Traced
    /\ \E i \in Processed : ret.trace.pairs[i].mode = "simple"

\* the pairs for which the cutoff loop ran
Shrunk == {i \in Processed : ret.trace.pairs[i].mode = "simple"}

\* C25: the cutoff-shrinking loop terminates: the cutoff starts at l_max,
\* decreases by exactly 1 per iteration (every cutoff above the final one gave
\* more than k_max paths, the final one is not below 0), and the loop stops
\* with a candidate set of at most k_max simple paths
C25_CutoffLoopStopsWithinKMax ==
    Traced =>
        \A i \in Shrunk :
            LET p == ret.trace.pairs[i]
            IN /\ p.k_max >= 0
               /\ p.cutoff \in 0 .. p.l_max
               /\ \A above \in (p.cutoff + 1) .. p.l_max :
                     Cardinality(all_simple_paths(ret.trace.es, p.u, p.v, above)) > p.k_max
               /\ p.sequences = all_simple_paths(ret.trace.es, p.u, p.v, p.cutoff)
               /\ Cardinality(p.sequences) <= p.k_max

\* the loop lowered the cutoff once and stopped with a path left
C25_Witness ==
    /\ Traced
    /\ \E i \in Shrunk :
          LET p == ret.trace.pairs[i]
          IN p.cutoff = p.l_max - 1 /\ p.sequences # {}

\* the loop lowered the cutoff until no path was left
C25_WitnessEmpty ==
    /\ Traced
    /\ \E i \in Shrunk :
          LET p == ret.trace.pairs[i]
          IN p.cutoff < p.l_max /\ p.sequences = {}

\* C26: for every passage pair processed without raising, the sub-path
\* appended to the accumulated path is a candidate enumerated for that same
\* pair, a path of the channel graph from p_i to p_i+1, and has the minimum
\* score among that pair's candidates
C26_AppendedIsBestCandidate ==
    (ret.op = "match" /\ ~ret.raised /\ ret.trace # NoTrace) =>
        \A i \in Processed :
            LET p == ret.trace.pairs[i]
            IN /\ p.appended \in p.sequences
               /\ p.appended[1] = p.u
               /\ p.appended[Len(p.appended)] = p.v
               /\ IsWalk(ret.trace.es, p.appended)
               /\ \A x \in p.sequences : p.score[p.appended] <= p.score[x]

\* the same for the pairs that have a candidate
C26_BestOfNonEmpty ==
    (ret.op = "match" /\ ~ret.raised /\ ret.trace # NoTrace) =>
        \A i \in Processed :
            LET p == ret.trace.pairs[i]
            IN p.sequences # {} =>
                  /\ p.appended \in p.sequences
                  /\ p.appended[1] = p.u
                  /\ p.appended[Len(p.appended)] = p.v
                  /\ IsWalk(ret.trace.es, p.appended)
                  /\ \A x \in p.sequences : p.score[p.appended] <= p.score[x]

\* a pair without candidates took the sub-path of the pair before, and the
\* call returned success
C26_StaleInSuccess ==
    /\ Traced /\ ret.message = "success"
    /\ \E i \in Processed :
          ret.trace.pairs[i].sequences = {} /\ ret.trace.pairs[i].appended # << >>

\* the step that follows the reconciliation of a call
Branches == m.pc = "reconciled" /\ m'.pc # "reconciled"

\* C28: when find_WP_intersections returns no passages and origin differs
\* from destination, passages is seeded with the origin only if its distance
\* is below 100 and with the destination only if its distance is below 100,
\* origin first; matching proceeds only when both are close and the outcome is
\* no_intersects when at most one is; when origin equals destination passages
\* stays empty (and the outcome is no_intersects)
C28_EmptyPassagesSeededWhenClose ==
    [][(Branches /\ m.found = << >>) =>
          LET loc == m.loc
              origin == IF loc.dist_orig < 100 THEN <<loc.orig_WP>> ELSE << >>
              destination == IF loc.dist_dest < 100 THEN <<loc.dest_WP>> ELSE << >>
          IN /\ m.passages = IF loc.orig_WP # loc.dest_WP THEN origin \o destination ELSE << >>
             /\ IF loc.orig_WP # loc.dest_WP /\ loc.dist_orig < 100 /\ loc.dist_dest < 100
                THEN m'.pc = "try" /\ m'.passages = <<loc.orig_WP, loc.dest_WP>>
                ELSE /\ m' = NoCall
                     /\ ret'.op = "match" /\ ~ret'.raised
                     /\ ret'.message = "no_intersects"]_vars

\* no passages found, both endpoints close: the call goes on to match them
C28_Witness ==
    /\ m.pc = "try" /\ m.hits = 0 /\ Len(m.passages) = 2

\* no passages found, only the origin close: no_intersects
C28_WitnessOneClose ==
    /\ ret.op = "match" /\ ~ret.raised /\ ret.message = "no_intersects"
    /\ ret.hits = 0 /\ Len(ret.passages) = 1

\* the located origin is absent from the passages found and close
OriginAbsentAndClose(frame) ==
    frame.loc.orig_WP \notin Range(frame.found) /\ frame.loc.dist_orig < 100

\* the passages after the origin was handled
WithOrigin(frame, insert) ==
    IF insert THEN <<frame.loc.orig_WP>> \o frame.found ELSE frame.found

\* the located destination is absent from the passages, close and reachable
\* from the last passage
DestinationAppended(frame, es, passages) ==
    /\ frame.loc.dest_WP \notin Range(passages)
    /\ frame.loc.dist_dest < 100
    /\ has_path(es, passages[Len(passages)], frame.loc.dest_WP)

\* the frame is what the reconciliation gives when the origin is inserted
\* exactly under the condition insert
ReconciledAs(frame, es, insert) ==
    LET p1 == WithOrigin(frame, insert)
        append == DestinationAppended(frame, es, p1)
    IN /\ frame.passages = IF append THEN Append(p1, frame.loc.dest_WP) ELSE p1
       /\ frame.orig_WP = IF insert THEN frame.loc.orig_WP ELSE frame.found[1]
       /\ frame.dest_WP = IF append THEN frame.loc.dest_WP ELSE p1[Len(p1)]

\* C29 as stated: with passages found, the located origin is inserted at the
\* front iff it is absent, close and reachable from the current first passage,
\* otherwise the first passage becomes the origin; the located destination is
\* appended iff it is absent, close and reachable from the current last
\* passage, otherwise the last passage becomes the destination
C29_OriginReachableFromFirst ==
    (m.pc = "reconciled" /\ m.found # << >>) =>
        ReconciledAs(m, Edges(G_pruned),
                     OriginAbsentAndClose(m) /\ has_path(Edges(G_pruned), m.found[1], m.loc.orig_WP))

\* C29, amended: with passages found, the located origin is inserted at the
\* front iff it is absent, close and the current first passage is reachable
\* from it in the pruned graph, otherwise the first passage becomes the
\* origin; the located destination is appended iff it is absent, close and
\* reachable from the current last passage, otherwise the last passage
\* becomes the destination.
C29_FirstReachableFromOrigin ==
    (m.pc = "reconciled" /\ m.found # << >>) =>
        ReconciledAs(m, Edges(G_pruned),
                     OriginAbsentAndClose(m) /\ has_path(Edges(G_pruned), m.loc.orig_WP, m.found[1]))

\* the origin was inserted although it cannot be reached from the first
\* passage, and the destination was appended
C29_Witness ==
    /\ m.pc = "reconciled" /\ m.found # << >>
    /\ m.passages = <<m.loc.orig_WP>> \o m.found \o <<m.loc.dest_WP>>
    /\ ~has_path(Edges(G_pruned), m.found[1], m.loc.orig_WP)

\* a close origin was not inserted because the first passage cannot be
\* reached from it
C29_WitnessNotInserted ==
    /\ m.pc = "reconciled" /\ m.found # << >>
    /\ OriginAbsentAndClose(m)
    /\ has_path(Edges(G_pruned), m.found[1], m.loc.orig_WP)
    /\ m.passages[1] = m.found[1] /\ m.orig_WP = m.found[1]

\* the path that keeps the positions keep of the stitched path
Kept(stitched, keep) ==
    LET F[k \in 0 .. Len(stitched)] ==
            IF k = 0 THEN << >>
            ELSE IF k \in keep THEN Append(F[k - 1], stitched[k]) ELSE F[k - 1]
    IN F[Len(stitched)]

\* keep is a choice of positions of the stitched path that keeps its first
\* and its last node, never drops two consecutive nodes, and drops the middle
\* node of a triple only if the direct hop exists in the channel graph
AllowedSkips(es, stitched, keep) ==
    /\ 1 \in keep /\ Len(stitched) \in keep
    /\ \A k \in 1 .. (Len(stitched) - 1) : k \in keep \/ (k + 1) \in keep
    /\ \A k \in 2 .. (Len(stitched) - 1) :
          k \notin keep => <<stitched[k - 1], stitched[k + 1]>> \in es

\* a matching call in refined mode got through the hop-skipping pass
Refined ==
    /\ ret.op = "match" /\ ~ret.raised /\ ret.algorithm = "refined"
    /\ ret.trace # NoTrace

\* C30: in refined mode the path produced by the hop-skipping pass is a
\* subsequence of the stitched path that keeps its first and its last node,
\* never drops two consecutive nodes, and drops a node B of a triple (A,B,C)
\* only if the direct hop A->C exists in the channel graph
C30_HopSkippingKeepsEnds ==
    Refined =>
        \E keep \in SUBSET (1 .. Len(ret.trace.stitched)) :
            /\ AllowedSkips(ret.trace.es, ret.trace.stitched, keep)
            /\ ret.trace.path = Kept(ret.trace.stitched, keep)

\* the pass dropped one inner node of a stitched path of four nodes
C30_WitnessLong ==
    /\ Refined
    /\ Len(ret.trace.stitched) = 4 /\ Len(ret.trace.path) = 3
    /\ ret.trace.path[1] = ret.trace.stitched[1]
    /\ ret.trace.path[3] = ret.trace.stitched[4]

\* the pass dropped the middle node of a stitched path of three nodes
C30_Witness ==
    /\ Refined
    /\ ret.message = "success" /\ ret.path = ret.trace.path
    /\ Len(ret.trace.stitched) = 3 /\ Len(ret.path) = 2
    /\ ret.trace.stitched[2] # ret.trace.stitched[3]
====
